---- MODULE Spec2Model ----
(***************************************************************************)
(* A model of databeakers: the Recipe (graph of beakers and transforms,    *)
(* seed registry and ledger, run_once), and the transform wrappers         *)
(* (Retry, AdaptiveRateLimit).                                             *)
(*                                                                         *)
(* Python strings that the code builds by formatting (beaker names) are    *)
(* sequences of their "-"-separated parts: "word" is <<"word">>, the       *)
(* f-string f"cond-{from_beaker}" is <<"cond">> \o from_beaker, and the    *)
(* empty string "" is << >>.                                               *)
(*                                                                         *)
(* Python values stored in beakers are records with a field tag: a         *)
(* pydantic record Word, a tuple (data, cond), an ErrorType, or None.      *)
(***************************************************************************)
EXTENDS Integers, Sequences, FiniteSets, TLC

VARIABLES
    graph,      \* Recipe.graph: [nodes: Seq(name), edges: Seq([from, to, transform])]
    beakers,    \* Recipe.beakers: name -> [temp: BOOLEAN, items: Seq([id, item])]
    seeds,      \* Recipe.seeds: seed name -> [beaker_name, seed_func]
    ledger,     \* the _seeds table: Seq([name, beaker_name, num_items, imported_at])
    nextId,     \* the next auto-generated id (uuid) a beaker hands out; ids are
                \* opaque, so the numbering starts over once a reset has left
                \* no id in any beaker
    last,       \* what the latest operation did (its calls, inserts and outcome)
    ndecl,      \* number of declaration calls made while building a recipe
    retry,      \* a Retry wrapper and the latest call of it
    arl,        \* an AdaptiveRateLimit wrapper and the latest call of it
    rl          \* a RateLimit wrapper, the clock and the latest call of it

vars == <<graph, beakers, seeds, ledger, nextId, last, ndecl, retry, arl, rl>>

recipeVars == <<graph, beakers, seeds, ledger, nextId, last, ndecl>>

(***************************************************************************)
(* Bounds of the model.                                                    *)
(***************************************************************************)
MaxDecls == 3       \* declaration calls explored by SpecBuild
MaxIds == 4         \* auto-generated ids handed out
MaxRetries == 3     \* Retry(f, retries): retries in 0..MaxRetries
MaxRate == 2        \* AdaptiveRateLimit: requests_per_second in 1..MaxRate
MaxBackOff == 9     \* AdaptiveRateLimit: back_off_rate in 2..MaxBackOff
MaxSpeedUp == 2     \* AdaptiveRateLimit: speed_up_after in 1..MaxSpeedUp
MaxCalls == 9       \* AdaptiveRateLimit: calls made of one wrapper

(***************************************************************************)
(* Sequences.                                                              *)
(***************************************************************************)
Range(s) == {s[i] : i \in 1..Len(s)}

IndexOf(s, x) == IF x \in Range(s) THEN CHOOSE i \in 1..Len(s) : s[i] = x ELSE 0

(***************************************************************************)
(* Python values.                                                          *)
(***************************************************************************)
None == [tag |-> "None"]

Word(v) == [tag |-> "Word", v |-> v]

Tuple2(data, cond) == [tag |-> "tuple", data |-> data, cond |-> cond]

\* recipe.py:39-42
ErrorType(item, exception, exc_type) ==
    [tag |-> "ErrorType", item |-> item, exception |-> exception, exc_type |-> exc_type]

\* Python truthiness: None is falsy; a pydantic record, a non-empty tuple are truthy
Truthy(x) == x.tag # "None"

Ret(x) == [raised |-> FALSE, value |-> x]

Raise(kind, msg) == [raised |-> TRUE, kind |-> kind, msg |-> msg]

(***************************************************************************)
(* Exception kinds and isinstance.                                         *)
(***************************************************************************)
Kinds == {"BaseException", "Exception", "LookupError", "KeyError", "ValueError",
          "AttributeError", "ZeroDivisionError", "TypeError", "TimeoutError",
          "CancelledError"}

\* the direct base class of each kind
BaseOf(k) ==
    CASE k = "KeyError" -> "LookupError"
      [] k = "LookupError" -> "Exception"
      [] k = "ValueError" -> "Exception"
      [] k = "AttributeError" -> "Exception"
      [] k = "ZeroDivisionError" -> "Exception"
      [] k = "TypeError" -> "Exception"
      [] k = "TimeoutError" -> "Exception"
      [] OTHER -> "BaseException"

RECURSIVE IsSubKind(_, _)
IsSubKind(k, base) ==
    IF k = base THEN TRUE
    ELSE IF k = "BaseException" THEN FALSE
    ELSE IsSubKind(BaseOf(k), base)

\* isinstance(e, error_types) for a tuple of exception classes
IsInstance(kind, error_types) ==
    \E i \in 1..Len(error_types) : IsSubKind(kind, error_types[i])

(***************************************************************************)
(* Callables: a function the application hands to the recipe is            *)
(* [kind, arg, pyname]; pyname is its __name__.                            *)
(***************************************************************************)
NamedFunc(f) == [kind |-> "user", arg |-> f, pyname |-> f]

Lambda(f) == [kind |-> "user", arg |-> f, pyname |-> "<lambda>"]

\* recipe.py:128, lambda data: (data, condition_func(data))
PairWithCond(condition_func) ==
    [kind |-> "pair", arg |-> condition_func.arg, pyname |-> "<lambda>"]

IfCondTrue == [kind |-> "if_cond_true", arg |-> "", pyname |-> "if_cond_true"]

IfCondFalse == [kind |-> "if_cond_false", arg |-> "", pyname |-> "if_cond_false"]

(***************************************************************************)
(* Beakers (beakers.py is not part of the sources: modelled from the       *)
(* storage contract of the specification, section 4.1).                    *)
(***************************************************************************)
\* a new beaker object: a TempBeaker starts empty, a SqliteBeaker shows the
\* rows its table already holds
NewBeaker(bs, name, temp) ==
    [temp |-> temp,
     items |-> IF ~temp /\ name \in DOMAIN bs /\ ~bs[name].temp
               THEN bs[name].items ELSE << >>]

BeakerIdSet(b) == {b.items[i].id : i \in 1..Len(b.items)}

BeakerLen(b) == Len(b.items)

\* add_item(item, id): inserts, or overwrites the record stored under id
BeakerAddItem(b, item, id) ==
    IF id \in BeakerIdSet(b)
    THEN [b EXCEPT !.items =
             [i \in 1..Len(b.items) |->
                 IF b.items[i].id = id THEN [id |-> id, item |-> item]
                 ELSE b.items[i]]]
    ELSE [b EXCEPT !.items = Append(@, [id |-> id, item |-> item])]

BeakerReset(b) == [b EXCEPT !.items = << >>]

(***************************************************************************)
(* networkx.DiGraph: nodes and edges keep their insertion order.           *)
(***************************************************************************)
EmptyGraph == [nodes |-> << >>, edges |-> << >>]

\* graph.add_node(name)
GraphAddNode(g, n) ==
    IF n \in Range(g.nodes) THEN g ELSE [g EXCEPT !.nodes = Append(@, n)]

HasEdge(g, u, v) == \E i \in 1..Len(g.edges) : g.edges[i].from = u /\ g.edges[i].to = v

\* graph.add_edge(u, v, transform=t): adds the missing endpoints as nodes,
\* and, on an edge that exists, replaces the attribute transform and keeps
\* the others.  The attribute to_beaker is << >> until graph_data sets it.
GraphAddEdge(g, u, v, t) ==
    LET g2 == GraphAddNode(GraphAddNode(g, u), v)
        e == [from |-> u, to |-> v, transform |-> t, to_beaker |-> << >>]
    IN  IF HasEdge(g2, u, v)
        THEN [g2 EXCEPT !.edges =
                 [i \in 1..Len(g2.edges) |->
                     IF g2.edges[i].from = u /\ g2.edges[i].to = v
                     THEN [g2.edges[i] EXCEPT !.transform = t]
                     ELSE g2.edges[i]]]
        ELSE [g2 EXCEPT !.edges = Append(@, e)]

\* graph.out_edges(node, data=True)
OutEdges(g, n) == SelectSeq(g.edges, LAMBDA e : e.from = n)

\* graph.in_edges(node, data=True)
InEdges(g, n) == SelectSeq(g.edges, LAMBDA e : e.to = n)

(***************************************************************************)
(* Recipe: the declaration API.  R is [graph, beakers].                    *)
(***************************************************************************)
\* Recipe.__init__
EmptyRecipe == [graph |-> EmptyGraph, beakers |-> << >>]

PutBeaker(bs, name, b) ==
    [n \in (DOMAIN bs) \cup {name} |-> IF n = name THEN b ELSE bs[n]]

\* Recipe.add_beaker(name, datatype); temp is "datatype is None"
AddBeaker(R, name, temp) ==
    [graph |-> GraphAddNode(R.graph, name),
     beakers |-> PutBeaker(R.beakers, name, NewBeaker(R.beakers, name, temp))]

\* Recipe.add_transform(from_beaker, to_beaker, transform_func, name=, error_map=);
\* name is << >> for None and <<n>> for the name n
AddTransform(R, from_beaker, to_beaker, transform_func, name, error_map) ==
    LET nm == IF name = << >>
              THEN IF transform_func.pyname = "<lambda>"
                   THEN <<"λ">> ELSE <<transform_func.pyname>>
              ELSE name[1]
        transform == [name |-> nm, transform_func |-> transform_func,
                      error_map |-> error_map]
    IN  [R EXCEPT !.graph = GraphAddEdge(@, from_beaker, to_beaker, transform)]

\* Recipe.add_conditional(from_beaker, condition_func, if_true, if_false="")
AddConditional(R, from_beaker, condition_func, if_true, if_false) ==
    LET cond_name == IF condition_func.pyname = "<lambda>"
                     THEN <<"cond">> \o from_beaker
                     ELSE <<"cond">> \o from_beaker \o <<condition_func.pyname>>
        R1 == AddBeaker(R, cond_name, TRUE)
        R2 == AddTransform(R1, from_beaker, cond_name, PairWithCond(condition_func),
                           <<cond_name>>, << >>)
        R3 == AddBeaker(R2, if_true, TRUE)
        R4 == AddTransform(R3, cond_name, if_true, IfCondTrue, << >>, << >>)
    IN  IF if_false # << >>
        THEN AddTransform(R4, cond_name, if_false, IfCondFalse, << >>, << >>)
        ELSE R4

NodeSet(g) == Range(g.nodes)

(***************************************************************************)
(* networkx.topological_sort: Kahn's algorithm by generations, nodes and   *)
(* neighbours taken in insertion order.  On a graph with a cycle the       *)
(* generator yields the nodes it can reach and then raises.                *)
(***************************************************************************)
RECURSIVE RelaxChildren(_, _, _)
RelaxChildren(children, indeg, zero) ==
    IF children = << >> THEN [indeg |-> indeg, zero |-> zero]
    ELSE LET c == Head(children).to
             d == indeg[c] - 1
         IN  RelaxChildren(Tail(children), [indeg EXCEPT ![c] = d],
                           IF d = 0 THEN Append(zero, c) ELSE zero)

RECURSIVE RelaxGeneration(_, _, _, _)
RelaxGeneration(g, generation, indeg, zero) ==
    IF generation = << >> THEN [indeg |-> indeg, zero |-> zero]
    ELSE LET r == RelaxChildren(OutEdges(g, Head(generation)), indeg, zero)
         IN  RelaxGeneration(g, Tail(generation), r.indeg, r.zero)

RECURSIVE TopologicalGenerations(_, _, _, _)
TopologicalGenerations(g, zero_indegree, indeg, acc) ==
    IF zero_indegree = << >> THEN acc
    ELSE LET r == RelaxGeneration(g, zero_indegree, indeg, << >>)
         IN  TopologicalGenerations(g, r.zero, r.indeg, acc \o zero_indegree)

TopologicalSortBackwards(g) ==
    LET indeg == [n \in NodeSet(g) |-> Len(InEdges(g, n))]
        zero == SelectSeq(g.nodes, LAMBDA n : indeg[n] = 0)
        order == TopologicalGenerations(g, zero, indeg, << >>)
    IN  [order |-> [i \in 1..Len(order) |-> order[Len(order) + 1 - i]],
         cyclic |-> Len(order) < Len(g.nodes)]

TopologicalSort(g) ==
    LET indeg == [n \in NodeSet(g) |-> Len(InEdges(g, n))]
        zero == SelectSeq(g.nodes, LAMBDA n : indeg[n] = 0)
        order == TopologicalGenerations(g, zero, indeg, << >>)
    IN  [order |-> order, cyclic |-> Len(order) < Len(g.nodes)]

(***************************************************************************)
(* Recipe.graph_data.  Names are compared as Python compares the strings:   *)
(* part by part, a name that is a prefix of another first ("-" sorts       *)
(* before every letter).                                                   *)
(***************************************************************************)
\* the words names are made of, in the order of Python's str comparison
Words == <<"a", "abc", "b", "big", "cond", "errors", "even", "fruit", "fussy",
           "is_even", "is_small", "nonword", "normalized", "odd", "small",
           "tiny", "word", "xyz">>

RECURSIVE NameLess(_, _)
NameLess(x, y) ==
    IF x = << >> THEN y # << >>
    ELSE IF y = << >> THEN FALSE
    ELSE IF Head(x) = Head(y) THEN NameLess(Tail(x), Tail(y))
    ELSE IndexOf(Words, Head(x)) < IndexOf(Words, Head(y))

\* the descriptor of a node among those collected so far
NodeData(nodes, name) == nodes[CHOOSE i \in 1..Len(nodes) : nodes[i].name = name]

RankOfFirst(nodes, in_edges) ==
    IF in_edges = << >> THEN 0 ELSE NodeData(nodes, in_edges[1].from).rank

\* recipe.py:247-250: the largest rank of a predecessor, 0 without one
RECURSIVE MaxRank(_, _)
MaxRank(nodes, in_edges) ==
    IF in_edges = << >> THEN 0
    ELSE LET rest == MaxRank(nodes, Tail(in_edges))
             r == NodeData(nodes, Head(in_edges).from).rank
         IN  IF r > rest THEN r ELSE rest

\* recipe.py:253-255: edge["to_beaker"] = to_b on the edges leaving node
SetToBeaker(g, node) ==
    [g EXCEPT !.edges =
        [i \in 1..Len(g.edges) |->
            IF g.edges[i].from = node
            THEN [g.edges[i] EXCEPT !.to_beaker = g.edges[i].to]
            ELSE g.edges[i]]]

\* recipe.py:239-255: the loop over the nodes; [graph, nodes, raised]
RECURSIVE CollectNodes(_, _, _, _)
CollectNodes(R, g, order, nodes) ==
    IF order = << >> THEN [graph |-> g, nodes |-> nodes, raised |-> ""]
    ELSE LET node == Head(order)
         IN  IF node \notin DOMAIN R.beakers
             THEN [graph |-> g, nodes |-> nodes, raised |-> "KeyError"]
             ELSE LET g2 == SetToBeaker(g, node)
                      d == [name |-> node,
                            temp |-> R.beakers[node].temp,
                            len |-> BeakerLen(R.beakers[node]),
                            edges |-> OutEdges(g2, node),
                            rank |-> MaxRank(nodes, InEdges(g, node)) + 1]
                  IN  CollectNodes(R, g2, Tail(order), Append(nodes, d))

SortKeyLessByName(x, y) == NameLess(x.name, y.name)

\* recipe.py:260: key=lambda x: (x["rank"], x["name"])
SortKeyLess(x, y) ==
    x.rank < y.rank \/ (x.rank = y.rank /\ NameLess(x.name, y.name))

\* d put at its place in the sorted sequence, after the elements that are not
\* greater (sorted is stable)
RECURSIVE Insert(_, _)
Insert(sorted, d) ==
    IF sorted = << >> THEN <<d>>
    ELSE IF SortKeyLess(d, Head(sorted)) THEN <<d>> \o sorted
    ELSE <<Head(sorted)>> \o Insert(Tail(sorted), d)

\* sorted(nodes.values(), key=...)
RECURSIVE Sorted(_)
Sorted(nodes) ==
    IF nodes = << >> THEN << >>
    ELSE Insert(Sorted(SubSeq(nodes, 1, Len(nodes) - 1)), nodes[Len(nodes)])

\* Recipe.graph_data(): [graph, raised, result]
GraphData(R) ==
    LET ts == TopologicalSort(R.graph)
        c == CollectNodes(R, R.graph, ts.order, << >>)
    IN  IF c.raised # ""
        THEN [graph |-> c.graph, raised |-> c.raised, result |-> << >>]
        ELSE IF ts.cyclic
        THEN [graph |-> c.graph, raised |-> "NetworkXUnfeasible", result |-> << >>]
        ELSE [graph |-> c.graph, raised |-> "", result |-> Sorted(c.nodes)]

(***************************************************************************)
(* The functions of the application: transforms, predicates and seed       *)
(* generators, each a deterministic function of the record it is given.    *)
(***************************************************************************)
UserFuncs == {"capitalized", "is_odd", "parse", "unwrap"}

\* unwrap gives the record an ErrorType wraps, and any other record as it is
UserCall(f, item) ==
    IF f = "unwrap"
    THEN Ret(IF item.tag = "ErrorType" THEN item.item ELSE item)
    ELSE IF item.tag # "Word" THEN Raise("AttributeError", "no attribute word")
    ELSE CASE f = "capitalized" -> Ret(Word(item.v + 10))
           [] f = "is_odd" -> IF item.v % 2 = 1 THEN Ret(item) ELSE Ret(None)
           [] f = "parse" ->
                CASE item.v % 5 = 1 -> Ret(Word(item.v + 10))
                  [] item.v % 5 = 2 -> Ret(None)
                  [] item.v % 5 = 3 -> Raise("KeyError", "missing key")
                  [] item.v % 5 = 4 -> Raise("ValueError", "bad value")
                  [] OTHER -> Raise("ZeroDivisionError", "division by zero")
           [] OTHER -> Raise("TypeError", "not callable")

\* a predicate returns a Python bool, or raises
CondCall(f, item) ==
    IF item.tag # "Word" THEN Raise("AttributeError", "no attribute word")
    ELSE CASE f = "is_small" -> Ret(item.v <= 2)
           [] f = "is_even" -> Ret(item.v % 2 = 0)
           [] f = "fussy" -> IF item.v = 3 THEN Raise("ValueError", "bad value")
                             ELSE Ret(item.v <= 1)
           [] OTHER -> Raise("TypeError", "not callable")

\* recipe.py:45-46; subscripting a value that is no tuple raises TypeError
if_cond_true(data_cond_tup) ==
    IF data_cond_tup.tag # "tuple" THEN Raise("TypeError", "not subscriptable")
    ELSE Ret(IF data_cond_tup.cond THEN data_cond_tup.data ELSE None)

if_cond_false_same(data_cond_tup) == if_cond_true(data_cond_tup)

\* recipe.py:49-50
if_cond_false(data_cond_tup) ==
    IF data_cond_tup.tag # "tuple" THEN Raise("TypeError", "not subscriptable")
    ELSE Ret(IF ~data_cond_tup.cond THEN data_cond_tup.data ELSE None)

\* t_func(item), recipe.py:318
CallFunc(func, item) ==
    CASE func.kind = "user" -> UserCall(func.arg, item)
      [] func.kind = "pair" ->
            LET c == CondCall(func.arg, item)
            IN  IF c.raised THEN c ELSE Ret(Tuple2(item, c.value))
      [] func.kind = "if_cond_true" -> if_cond_true(item)
      [] func.kind = "if_cond_false" -> if_cond_false(item)

\* a seed generator: the records it yields, and whether it then raises
SeedFuncs == {"abc", "one", "boom"}

SeedGen(f) ==
    CASE f = "abc" -> [items |-> <<Word(1), Word(2), Word(3)>>, raises |-> FALSE]
      [] f = "one" -> [items |-> <<Word(4)>>, raises |-> FALSE]
      [] f = "boom" -> [items |-> <<Word(1)>>, raises |-> TRUE]

(***************************************************************************)
(* Recipe.run_once.  The run's state st is [beakers, calls, inserts,       *)
(* raised, started, ended]: calls lists the transform invocations (the     *)
(* edge, the item and what the transform returned or raised) and inserts   *)
(* the add_item calls, in order; raised is the kind of the exception that  *)
(* left run_once ("" when none did).                                       *)
(***************************************************************************)
AlreadyProcessedNone(from_beaker, to_beaker) == {}

AlreadyProcessedEither(from_beaker, to_beaker) ==
    BeakerIdSet(from_beaker) \cup BeakerIdSet(to_beaker)

\* recipe.py:294
AlreadyProcessed(from_beaker, to_beaker) ==
    BeakerIdSet(from_beaker) \cap BeakerIdSet(to_beaker)

MatchingEntries(error_map, kind) ==
    {i \in 1..Len(error_map) : IsInstance(kind, error_map[i].error_types)}

LastMatch(error_map, kind) ==
    LET m == MatchingEntries(error_map, kind)
    IN  IF m = {} THEN 0 ELSE CHOOSE i \in m : \A j \in m : j <= i

\* recipe.py:322-326: the first entry, in the dict's order, that matches; 0 if none
FirstMatch(error_map, kind) ==
    LET m == MatchingEntries(error_map, kind)
    IN  IF m = {} THEN 0 ELSE CHOOSE i \in m : \A j \in m : i <= j

Swallow(st, kind) == st

\* recipe.py:337-339: no error handler, re-raise
ReRaise(st, kind) == [st EXCEPT !.raised = kind]

HandleExceptionAutoId(st, e, rec, exc) ==
    LET m == FirstMatch(e.transform.error_map, exc.kind)
    IN  IF ~IsSubKind(exc.kind, "Exception") THEN [st EXCEPT !.raised = exc.kind]
        ELSE IF m = 0 THEN ReRaise(st, exc.kind)
        ELSE LET error_beaker_name == e.transform.error_map[m].dest
                 err == ErrorType(rec.item, exc.msg, exc.kind)
             IN  IF error_beaker_name \notin DOMAIN st.beakers
                 THEN [st EXCEPT !.raised = "KeyError"]
                 ELSE LET id == MaxIds + 1 + Len(st.beakers[error_beaker_name].items)
                      IN  [st EXCEPT
                             !.beakers[error_beaker_name] = BeakerAddItem(@, err, id),
                             !.inserts = Append(@, [beaker |-> error_beaker_name,
                                                    id |-> id, item |-> err,
                                                    kind |-> "error",
                                                    from |-> e.from, to |-> e.to])]

\* recipe.py:321-339; except Exception does not catch a BaseException
HandleException(st, e, rec, exc) ==
    LET m == FirstMatch(e.transform.error_map, exc.kind)
    IN  IF ~IsSubKind(exc.kind, "Exception") THEN [st EXCEPT !.raised = exc.kind]
        ELSE IF m = 0 THEN ReRaise(st, exc.kind)
        ELSE LET error_beaker_name == e.transform.error_map[m].dest
                 err == ErrorType(rec.item, exc.msg, exc.kind)
             IN  IF error_beaker_name \notin DOMAIN st.beakers
                 THEN [st EXCEPT !.raised = "KeyError"]
                 ELSE [st EXCEPT
                         !.beakers[error_beaker_name] = BeakerAddItem(@, err, rec.id),
                         !.inserts = Append(@, [beaker |-> error_beaker_name,
                                                id |-> rec.id, item |-> err,
                                                kind |-> "error",
                                                from |-> e.from, to |-> e.to])]

ProcessItemOwnId(st, e, rec) ==
    LET out == CallFunc(e.transform.transform_func, rec.item)
        st1 == [st EXCEPT !.calls = Append(@, [from |-> e.from, to |-> e.to,
                                               id |-> rec.id, item |-> rec.item,
                                               out |-> out])]
        id == rec.id + Len(st.beakers[e.to].items) + 1
    IN  IF out.raised THEN HandleException(st1, e, rec, out)
        ELSE IF Truthy(out.value)
        THEN [st1 EXCEPT
                !.beakers[e.to] = BeakerAddItem(@, out.value, id),
                !.inserts = Append(@, [beaker |-> e.to, id |-> id,
                                       item |-> out.value, kind |-> "result",
                                       from |-> e.from, to |-> e.to])]
        ELSE st1

\* recipe.py:317-339, one item of the edge e
ProcessItem(st, e, rec) ==
    LET out == CallFunc(e.transform.transform_func, rec.item)
        st1 == [st EXCEPT !.calls = Append(@, [from |-> e.from, to |-> e.to,
                                               id |-> rec.id, item |-> rec.item,
                                               out |-> out])]
    IN  IF out.raised THEN HandleException(st1, e, rec, out)
        ELSE IF Truthy(out.value)
        THEN [st1 EXCEPT
                !.beakers[e.to] = BeakerAddItem(@, out.value, rec.id),
                !.inserts = Append(@, [beaker |-> e.to, id |-> rec.id,
                                       item |-> out.value, kind |-> "result",
                                       from |-> e.from, to |-> e.to])]
        ELSE st1

\* recipe.py:314-316
RECURSIVE ProcessItems(_, _, _, _)
ProcessItems(st, e, items, already_processed) ==
    IF items = << >> \/ st.raised # "" THEN st
    ELSE IF Head(items).id \in already_processed
    THEN ProcessItems(st, e, Tail(items), already_processed)
    ELSE ProcessItems(ProcessItem(st, e, Head(items)), e, Tail(items),
                      already_processed)

\* recipe.py:292-294, what the run finds when it starts the edge e: the ids of
\* the items of from_beaker in their order, and to_beaker.id_set()
EdgeStart(st, e) ==
    [from |-> e.from, to |-> e.to,
     from_ids |-> [i \in 1..Len(st.beakers[e.from].items) |->
                      st.beakers[e.from].items[i].id],
     to_ids |-> BeakerIdSet(st.beakers[e.to])]

\* recipe.py:289-339, one edge; self.beakers[...] raises KeyError for a node
\* that has no beaker
ProcessEdge(st, e) ==
    IF e.from \notin DOMAIN st.beakers \/ e.to \notin DOMAIN st.beakers
    THEN [st EXCEPT !.raised = "KeyError"]
    ELSE ProcessItems([st EXCEPT !.edges = Append(@, EdgeStart(st, e))], e,
                      st.beakers[e.from].items,
                      AlreadyProcessed(st.beakers[e.from], st.beakers[e.to]))

RECURSIVE ProcessEdges(_, _)
ProcessEdges(st, edges) ==
    IF edges = << >> \/ st.raised # "" THEN st
    ELSE ProcessEdges(ProcessEdge(st, Head(edges)), Tail(edges))

VisitNodeEndFirst(g, st, node, start_beaker, end_beaker) ==
    IF end_beaker # << >> /\ node = end_beaker THEN [st EXCEPT !.ended = TRUE]
    ELSE IF ~st.started /\ node # start_beaker THEN st
    ELSE ProcessEdges([st EXCEPT !.started = TRUE], OutEdges(g, node))

\* recipe.py:273-287, one node of the topological order
VisitNode(g, st, node, start_beaker, end_beaker) ==
    IF ~st.started /\ node # start_beaker THEN st
    ELSE IF end_beaker # << >> /\ node = end_beaker
    THEN [st EXCEPT !.started = TRUE, !.ended = TRUE]
    ELSE ProcessEdges([st EXCEPT !.started = TRUE], OutEdges(g, node))

RECURSIVE VisitNodes(_, _, _, _, _)
VisitNodes(g, st, order, start_beaker, end_beaker) ==
    IF order = << >> \/ st.raised # "" \/ st.ended THEN st
    ELSE VisitNodes(g, VisitNode(g, st, Head(order), start_beaker, end_beaker),
                    Tail(order), start_beaker, end_beaker)

\* Recipe.run_once(start_beaker, end_beaker); << >> stands for None
RunOnce(R, start_beaker, end_beaker) ==
    LET topo == TopologicalSort(R.graph)
        st0 == [beakers |-> R.beakers, calls |-> << >>, inserts |-> << >>,
                edges |-> << >>, raised |-> "", started |-> (start_beaker = << >>),
                ended |-> FALSE]
        st == VisitNodes(R.graph, st0, topo.order, start_beaker, end_beaker)
    IN  IF st.raised = "" /\ ~st.ended /\ topo.cyclic
        THEN [st EXCEPT !.raised = "NetworkXUnfeasible"]
        ELSE st

(***************************************************************************)
(* Seeds and the ledger.  S is [beakers, seeds, ledger, nextId].           *)
(***************************************************************************)
\* Recipe.add_seed(seed_name, beaker_name, seed_func)
AddSeed(sds, seed_name, beaker_name, seed_func) ==
    [n \in (DOMAIN sds) \cup {seed_name} |->
        IF n = seed_name THEN [beaker_name |-> beaker_name, seed_func |-> seed_func]
        ELSE sds[n]]

DbGetSeedNever(ldg, seed_name) == << >>

\* Recipe._db_get_seed: the rows SELECTed for the name (fetchone takes the first)
DbGetSeed(ldg, seed_name) == SelectSeq(ldg, LAMBDA row : row.name = seed_name)

\* beaker.add_item(item) for each item the generator yields, ids auto-generated
RECURSIVE AddItems(_, _, _)
AddItems(b, items, id) ==
    IF items = << >> THEN b
    ELSE AddItems(BeakerAddItem(b, Head(items), id), Tail(items), id + 1)

SeedInserts(beaker_name, items, id) ==
    [i \in 1..Len(items) |->
        [beaker |-> beaker_name, id |-> id + i - 1, item |-> items[i],
         kind |-> "seed", from |-> << >>, to |-> beaker_name]]

\* Recipe.run_seed(seed_name)
RunSeed(S, seed_name) ==
    LET fail(kind) == [beakers |-> S.beakers, ledger |-> S.ledger,
                       nextId |-> S.nextId, raised |-> kind, inserts |-> << >>]
    IN  IF seed_name \notin DOMAIN S.seeds THEN fail("SeedError")
        ELSE LET beaker_name == S.seeds[seed_name].beaker_name
                 gen == SeedGen(S.seeds[seed_name].seed_func)
                 num_items == Len(gen.items)
             IN  IF beaker_name \notin DOMAIN S.beakers THEN fail("KeyError")
                 ELSE IF DbGetSeed(S.ledger, seed_name) # << >> THEN fail("SeedError")
                 ELSE [beakers |-> [S.beakers EXCEPT ![beaker_name] =
                                       AddItems(@, gen.items, S.nextId)],
                       nextId |-> S.nextId + num_items,
                       inserts |-> SeedInserts(beaker_name, gen.items, S.nextId),
                       raised |-> IF gen.raises THEN "ValueError" ELSE "",
                       ledger |-> IF gen.raises THEN S.ledger
                                  ELSE Append(S.ledger,
                                         [name |-> seed_name,
                                          beaker_name |-> beaker_name,
                                          num_items |-> num_items,
                                          imported_at |-> "CURRENT_TIMESTAMP"])]

ResetOneRow(S) ==
    [S EXCEPT !.ledger = IF @ = << >> THEN @ ELSE Tail(@),
              !.beakers = [n \in DOMAIN S.beakers |-> BeakerReset(S.beakers[n])]]

ResetLedgerOnly(S) == [S EXCEPT !.ledger = << >>]

\* Recipe.reset()
Reset(S) ==
    [S EXCEPT !.ledger = << >>,
              !.beakers = [n \in DOMAIN S.beakers |->
                              IF BeakerLen(S.beakers[n]) # 0
                              THEN BeakerReset(S.beakers[n]) ELSE S.beakers[n]]]

\* recipe.py:204-209: the count reset() prints for each beaker, 0 for "empty"
ResetReport(S) == [n \in DOMAIN S.beakers |-> BeakerLen(S.beakers[n])]

(***************************************************************************)
(* The command line (cli.py).  A command ends with exit code 0 when its    *)
(* function returns, and with 1 when it raises typer.Exit(1) or lets an    *)
(* exception out.  S is [graph, beakers, seeds, ledger, nextId].  The      *)
(* methods process_seeds and csv_to_beaker are not in the sources: they    *)
(* follow the specification, sections 4.3 and 6.                           *)
(***************************************************************************)
\* the exit code of a command that ended by raising kind ("" when it returned)
ExitCode(kind) == IF kind = "" THEN 0 ELSE 1

\* cli.py:35-37: reset; the value reset() returns is not looked at
CliReset(S) ==
    LET r == Reset([beakers |-> S.beakers, ledger |-> S.ledger])
    IN  [beakers |-> r.beakers, ledger |-> r.ledger, exit |-> ExitCode("")]

CliSeedExitZero(S, name) ==
    LET r == RunSeed(S, name)
    IN  [beakers |-> r.beakers, ledger |-> r.ledger, nextId |-> r.nextId,
         raised |-> r.raised, inserts |-> r.inserts, exit |-> 0]

\* cli.py:61-67: seed; SeedError becomes typer.Exit(1), anything else escapes
CliSeed(S, name) ==
    LET r == RunSeed(S, name)
    IN  [beakers |-> r.beakers, ledger |-> r.ledger, nextId |-> r.nextId,
         raised |-> r.raised, inserts |-> r.inserts,
         exit |-> IF r.raised = "SeedError" THEN 1 ELSE ExitCode(r.raised)]

\* the registered seed names in registration order (the applications modelled
\* register their seeds in the order of their names)
RECURSIVE SeedOrder(_)
SeedOrder(names) ==
    IF names = {} THEN << >>
    ELSE LET first == CHOOSE n \in names : \A m \in names \ {n} : NameLess(n, m)
         IN  <<first>> \o SeedOrder(names \ {first})

\* process_seeds(): run_seed for every registered seed without a ledger row;
\* r is [beakers, ledger, nextId, raised, inserts]
RECURSIVE ProcessSeedsFrom(_, _, _)
ProcessSeedsFrom(S, r, names) ==
    IF names = << >> \/ r.raised # "" THEN r
    ELSE IF DbGetSeed(r.ledger, Head(names)) # << >>
    THEN ProcessSeedsFrom(S, r, Tail(names))
    ELSE LET one == RunSeed([beakers |-> r.beakers, seeds |-> S.seeds,
                             ledger |-> r.ledger, nextId |-> r.nextId],
                            Head(names))
         IN  ProcessSeedsFrom(S,
                 [beakers |-> one.beakers, ledger |-> one.ledger,
                  nextId |-> one.nextId, raised |-> one.raised,
                  inserts |-> r.inserts \o one.inserts],
                 Tail(names))

ProcessSeeds(S) ==
    ProcessSeedsFrom(S, [beakers |-> S.beakers, ledger |-> S.ledger,
                         nextId |-> S.nextId, raised |-> "", inserts |-> << >>],
                     SeedOrder(DOMAIN S.seeds))

\* the files --input can name, each the records of its rows
InputFiles == {"empty.csv", "one.csv"}

FileRows(filename) == IF filename = "one.csv" THEN <<Word(2)>> ELSE << >>

\* csv_to_beaker(filename, beaker): one record per row, ids auto-generated
CsvToBeaker(r, filename, beaker) ==
    IF beaker \notin DOMAIN r.beakers THEN [r EXCEPT !.raised = "KeyError"]
    ELSE LET rows == FileRows(filename)
         IN  [r EXCEPT
                !.beakers = [@ EXCEPT ![beaker] = AddItems(@, rows, r.nextId)],
                !.nextId = @ + Len(rows),
                !.inserts = @ \o [i \in 1..Len(rows) |->
                                    [beaker |-> beaker, id |-> r.nextId + i - 1,
                                     item |-> rows[i], kind |-> "input",
                                     from |-> << >>, to |-> beaker]]]

\* cli.py:84-86
RECURSIVE LoadInputs(_, _)
LoadInputs(r, input) ==
    IF input = << >> \/ r.raised # "" THEN r
    ELSE LoadInputs(CsvToBeaker(r, Head(input).filename, Head(input).beaker),
                    Tail(input))

\* cli.py:80: any(ctx.obj.beakers.values()), a beaker being truthy when it
\* holds a record
HasData(bs) == \E n \in DOMAIN bs : BeakerLen(bs[n]) # 0

CheckAfterLoad(seeded, loaded, input) == ~HasData(loaded.beakers)

\* cli.py:81: the test made before the inputs are loaded
CheckBeforeLoad(seeded, loaded, input) == input = << >> /\ ~HasData(seeded.beakers)

\* cli.py:70-87: run; [beakers, ledger, nextId, raised, calls, inserts, ran, exit]
\* where ran tells whether run_once was called
CliRun(S, input, start, end) ==
    LET seeded == IF DOMAIN S.seeds # {} THEN ProcessSeeds(S)
                  ELSE [beakers |-> S.beakers, ledger |-> S.ledger,
                        nextId |-> S.nextId, raised |-> "", inserts |-> << >>]
        loaded == LoadInputs(seeded, input)
        stop(r, exit) == [beakers |-> r.beakers, ledger |-> r.ledger,
                          nextId |-> r.nextId, raised |-> r.raised,
                          calls |-> << >>, inserts |-> r.inserts,
                          ran |-> FALSE, exit |-> exit]
    IN  IF seeded.raised # "" THEN stop(seeded, ExitCode(seeded.raised))
        ELSE IF CheckBeforeLoad(seeded, loaded, input) THEN stop(seeded, 1)
        ELSE IF loaded.raised # "" THEN stop(loaded, ExitCode(loaded.raised))
        ELSE LET st == RunOnce([graph |-> S.graph, beakers |-> loaded.beakers],
                               start, end)
             IN  [beakers |-> st.beakers, ledger |-> loaded.ledger,
                  nextId |-> loaded.nextId, raised |-> st.raised,
                  calls |-> st.calls, inserts |-> loaded.inserts \o st.inserts,
                  ran |-> TRUE, exit |-> ExitCode(st.raised)]

(***************************************************************************)
(* Retry(edge_func, retries).  The wrapped coroutine function is given by  *)
(* what its successive invocations do: outs[i] is the result or the        *)
(* exception of the i-th.                                                  *)
(***************************************************************************)
AttemptsOneLess(retries) == retries

\* wrappers.py:111, range(retries + 1)
Attempts(retries) == retries + 1

\* wrappers.py:109-120; n counts the attempts made, exception is << >> for None
RECURSIVE RetryLoop(_, _, _, _)
RetryLoop(retries, outs, n, exception) ==
    IF n >= Attempts(retries)
    THEN IF exception # << >>
         THEN [invocations |-> n, result |-> exception[1]]
         ELSE [invocations |-> n, result |-> Ret(None)]
    ELSE LET out == outs[n + 1]
         IN  IF ~out.raised THEN [invocations |-> n + 1, result |-> out]
             ELSE IF IsSubKind(out.kind, "Exception")
             THEN RetryLoop(retries, outs, n + 1, <<out>>)
             ELSE [invocations |-> n + 1, result |-> out]

\* new_func(item)
RetryCall(retries, outs) == RetryLoop(retries, outs, 0, << >>)

\* what one invocation of the wrapped function can do
FuncOutcomes == {Ret(Word(1)), Ret(None), Raise("ValueError", "bad value"),
                 Raise("KeyError", "missing key"), Raise("CancelledError", "")}

RetryIdle == [retries |-> 0, called |-> FALSE, outs |-> << >>,
              invocations |-> 0, result |-> Ret(None)]

(***************************************************************************)
(* Python floats: IEEE 754 binary64 with round-half-to-even.  A positive    *)
(* float is [hi, lo, e]: its 53-bit significand is hi * 2^27 + lo, with     *)
(* 2^25 <= hi < 2^26 and 0 <= lo < 2^27, and its value is the significand   *)
(* times 2^e.  The integers the wrapper holds are converted exactly, and    *)
(* a float is multiplied or divided by an integer no larger than 15.        *)
(***************************************************************************)
LoBase == 2^27

HiBase == 2^26

\* the number of bits of a natural number below 2^30
BitLen(x) == CHOOSE n \in 0..30 : x < 2^n /\ (n = 0 \/ x >= 2^(n - 1))

\* the float nearest to (significand + num/den) * 2^e, ties to the even
\* significand; 0 <= num < den
RoundNearest(hi, lo, e, num, den) ==
    LET up == 2 * num > den \/ (2 * num = den /\ lo % 2 = 1)
    IN  IF ~up THEN [hi |-> hi, lo |-> lo, e |-> e]
        ELSE IF lo + 1 < LoBase THEN [hi |-> hi, lo |-> lo + 1, e |-> e]
        ELSE IF hi + 1 < HiBase THEN [hi |-> hi + 1, lo |-> 0, e |-> e]
        ELSE [hi |-> HiBase \div 2, lo |-> 0, e |-> e + 1]

\* float(n) for a positive integer n
FromInt(n) ==
    LET L == BitLen(n)
    IN  [hi |-> n * 2^(26 - L), lo |-> 0, e |-> L - 53]

\* x * b for a float x and an integer b: the exact product, then s bits
\* dropped from its low end
FMulInt(x, b) ==
    LET pl == (x.lo * b) % LoBase
        ph == x.hi * b + (x.lo * b) \div LoBase
        s == BitLen(ph) - 26
        d == 2^s
    IN  RoundNearest(ph \div d, (ph % d) * (LoBase \div d) + pl \div d,
                     x.e + s, pl % d, d)

\* x / b for a float x and an integer b: long division of the significand,
\* then s more quotient bits to fill the significand
FDivInt(x, b) ==
    LET qh == x.hi \div b
        t == (x.hi % b) * LoBase + x.lo
        ql == t \div b
        r == t % b
        s == 26 - BitLen(qh)
        d == 2^s
        f == (r * d) \div b
    IN  RoundNearest(qh * d + ql \div (LoBase \div d),
                     (ql % (LoBase \div d)) * d + f,
                     x.e - s, (r * d) % b, b)

\* x < y
FLess(x, y) ==
    IF x.e # y.e THEN x.e < y.e
    ELSE IF x.hi # y.hi THEN x.hi < y.hi
    ELSE x.lo < y.lo

(***************************************************************************)
(* AdaptiveRateLimit.  A is the wrapper object; last_call is "None" or     *)
(* "set" (the delay before the call changes no field).  The wrapped        *)
(* function returns ("ok"), raises one of timeout_exceptions ("timeout")   *)
(* or raises something else ("error").                                     *)
(***************************************************************************)
\* wrappers.py:36-56
NewAdaptiveRateLimit(requests_per_second, back_off_rate, speed_up_after) ==
    [requests_per_second |-> FromInt(requests_per_second),
     desired_requests_per_second |-> FromInt(requests_per_second),
     back_off_rate |-> back_off_rate,
     speed_up_after |-> speed_up_after,
     successes_counter |-> 0,
     last_call |-> "None"]

\* wrappers.py:81-86
SpeedUp(A) ==
    /\ A.successes_counter >= A.speed_up_after
    /\ FLess(A.requests_per_second, A.desired_requests_per_second)

SlowDownTwice(A) ==
    [A EXCEPT !.requests_per_second =
                 FDivInt(FDivInt(@, A.back_off_rate), A.back_off_rate)]

\* wrappers.py:94
SlowDown(A) ==
    [A EXCEPT !.requests_per_second = FDivInt(@, A.back_off_rate)]

\* wrappers.py:61-100: [A, raised]
AdaptiveCall(A, outcome) ==
    LET timed == [A EXCEPT !.last_call = "set"]
    IN  IF outcome = "ok"
        THEN LET counted == [timed EXCEPT !.successes_counter = @ + 1]
             IN  IF SpeedUp(counted)
                 THEN [A |-> [counted EXCEPT
                                !.successes_counter = 0,
                                !.requests_per_second = FMulInt(@, A.back_off_rate)],
                       raised |-> ""]
                 ELSE [A |-> counted, raised |-> ""]
        ELSE IF outcome = "timeout"
        THEN [A |-> SlowDown(timed), raised |-> "TimeoutError"]
        ELSE [A |-> timed, raised |-> "ValueError"]

Outcomes == {"ok", "timeout", "error"}

\* streak: the successful calls made in a row since the rate last changed
\* (a history of the calls, not a field of the wrapper)
ArlIdle == [A |-> NewAdaptiveRateLimit(1, 2, 1), ncalls |-> 0, outcome |-> "",
            streak |-> 0,
            raised |-> ""]

(***************************************************************************)
(* RateLimit(edge_func, requests_per_second).  Time is counted in ticks,   *)
(* TicksPerSecond to the second, so that 1 / requests_per_second is a      *)
(* whole number of ticks for every rate explored.  The clock is time.time() *)
(* and asyncio.sleep(d) returns after d ticks or later.                    *)
(***************************************************************************)
RECURSIVE Factorial(_)
Factorial(n) == IF n <= 1 THEN 1 ELSE n * Factorial(n - 1)

TicksPerSecond == 2 * Factorial(MaxRate)

\* 1 / requests_per_second
Period(requests_per_second) == TicksPerSecond \div requests_per_second

DiffNever(requests_per_second, now, last_call) == 0

\* wrappers.py:18-19: diff, 0 standing for no sleep when there was no call yet
Diff(requests_per_second, now, last_call) ==
    IF last_call = -1 THEN 0
    ELSE Period(requests_per_second) - (now - last_call)

\* wrappers.py:12-30, new_func called at the time now; over is how much
\* later than asked the sleep returns.  [last_call, slept, start]
RateLimitCall(requests_per_second, last_call, now, over) ==
    LET diff == Diff(requests_per_second, now, last_call)
        slept == IF diff > 0 THEN diff + over ELSE 0
    IN  [last_call |-> now + slept, slept |-> slept, start |-> now + slept]

\* last_call is -1 for None; start and prev_start are the times at which the
\* latest two calls started edge_func (-1 for none); called_at, idle and over
\* describe the latest call
RlIdle == [requests_per_second |-> 1, last_call |-> -1, now |-> 0, ncalls |-> 0,
           start |-> -1, prev_start |-> -1, called_at |-> 0, idle |-> 0,
           over |-> 0, slept |-> 0]

(***************************************************************************)
(* The recipes the running system is explored on, each built with the      *)
(* declaration API.                                                        *)
(***************************************************************************)
\* a chain with two error beakers; the error map of word -> normalized has
\* two entries that both match a KeyError
FruitsRecipe ==
    LET R1 == AddBeaker(EmptyRecipe, <<"word">>, FALSE)
        R2 == AddBeaker(R1, <<"normalized">>, FALSE)
        R3 == AddBeaker(R2, <<"fruit">>, FALSE)
        R4 == AddBeaker(R3, <<"errors">>, FALSE)
        R5 == AddBeaker(R4, <<"nonword">>, FALSE)
        R6 == AddTransform(R5, <<"word">>, <<"normalized">>, Lambda("parse"), << >>,
                  << [error_types |-> <<"LookupError">>, dest |-> <<"nonword">>],
                     [error_types |-> <<"KeyError", "ValueError">>,
                      dest |-> <<"errors">>] >>)
    IN  AddTransform(R6, <<"normalized">>, <<"fruit">>, NamedFunc("is_odd"), << >>,
                     << >>)

\* a conditional whose two branches are declared beakers
SmallBigRecipe ==
    LET R1 == AddBeaker(EmptyRecipe, <<"word">>, FALSE)
        R2 == AddBeaker(R1, <<"big">>, TRUE)
    IN  AddConditional(R2, <<"word">>, NamedFunc("is_small"), <<"small">>, <<"big">>)

\* a conditional whose branches were not declared beforehand, and whose
\* true branch was declared after an edge out of it
EvenOddRecipe ==
    LET R1 == AddBeaker(EmptyRecipe, <<"word">>, FALSE)
    IN  AddConditional(R1, <<"word">>, Lambda("is_even"), <<"even">>, <<"odd">>)

\* a conditional without a false branch, on a predicate that raises
FussyRecipe ==
    LET R1 == AddBeaker(EmptyRecipe, <<"word">>, FALSE)
    IN  AddConditional(R1, <<"word">>, NamedFunc("fussy"), <<"tiny">>, << >>)

\* an error beaker with a transform of its own out of it, declared after the
\* beaker whose transform routes to it
RetryLastRecipe ==
    LET R1 == AddBeaker(EmptyRecipe, <<"word">>, FALSE)
        R2 == AddBeaker(R1, <<"normalized">>, FALSE)
        R3 == AddBeaker(R2, <<"errors">>, FALSE)
        R4 == AddBeaker(R3, <<"retried">>, FALSE)
        R5 == AddTransform(R4, <<"word">>, <<"normalized">>, NamedFunc("parse"),
                  << >>, << [error_types |-> <<"KeyError", "ValueError">>,
                             dest |-> <<"errors">>] >>)
    IN  AddTransform(R5, <<"errors">>, <<"retried">>, NamedFunc("unwrap"), << >>,
                     << >>)

\* the same, the error beaker declared first
RetryFirstRecipe ==
    LET R1 == AddBeaker(EmptyRecipe, <<"errors">>, FALSE)
        R2 == AddBeaker(R1, <<"word">>, FALSE)
        R3 == AddBeaker(R2, <<"normalized">>, FALSE)
        R4 == AddBeaker(R3, <<"retried">>, FALSE)
        R5 == AddTransform(R4, <<"word">>, <<"normalized">>, NamedFunc("parse"),
                  << >>, << [error_types |-> <<"KeyError", "ValueError">>,
                             dest |-> <<"errors">>] >>)
    IN  AddTransform(R5, <<"errors">>, <<"retried">>, NamedFunc("unwrap"), << >>,
                     << >>)

Recipes == {FruitsRecipe, SmallBigRecipe, EvenOddRecipe, FussyRecipe,
            RetryLastRecipe, RetryFirstRecipe}

SeedNames == {<<"abc">>, <<"xyz">>}

\* the add_seed calls the application makes
SeedDecls == {<<(<<"abc">>), (<<"word">>), "abc">>,
              <<(<<"abc">>), (<<"word">>), "boom">>,
              <<(<<"xyz">>), (<<"word">>), "one">>}

\* the record of an operation: its name and arguments, the kind of the exception
\* it raised ("" when it returned), its transform calls and its add_item calls;
\* after names the operation before it, and n alternates between 0 and 1 from
\* one operation to the next; edges are the edges a run_once started, and ran
\* gives the ids each beaker held when the latest run_once returned (no beaker
\* when that run_once raised, or when there was no run_once since the beakers
\* were last empty)
NoOp == [op |-> "init", a |-> << >>, b |-> << >>, raised |-> "",
         calls |-> << >>, inserts |-> << >>, after |-> "", n |-> 0,
         result |-> << >>, edges |-> << >>, ran |-> << >>]

Log(op, a, b, raised, calls, inserts) ==
    [op |-> op, a |-> a, b |-> b, raised |-> raised, calls |-> calls,
     inserts |-> inserts, after |-> last.op, n |-> 1 - last.n,
     result |-> << >>, edges |-> << >>, ran |-> last.ran]

\* the log of a run_once that ends in the state st
LogRun(start_beaker, end_beaker, st) ==
    [Log("run_once", start_beaker, end_beaker, st.raised, st.calls, st.inserts)
        EXCEPT !.edges = st.edges,
               !.ran = IF st.raised # "" THEN << >>
                       ELSE [b \in DOMAIN st.beakers |->
                                BeakerIdSet(st.beakers[b])]]

\* the log of a command: result is [exit, ran, report]
LogCli(op, a, b, raised, calls, inserts, result) ==
    [Log(op, a, b, raised, calls, inserts) EXCEPT !.result = result]

\* the log of an operation that returns a value
LogResult(op, raised, result) ==
    [Log(op, << >>, << >>, raised, << >>, << >>) EXCEPT !.result = result]

(***************************************************************************)
(* The running recipe.                                                     *)
(***************************************************************************)
Init ==
    /\ \E R \in Recipes : graph = R.graph /\ beakers = R.beakers
    /\ seeds = << >>
    /\ ledger = << >>
    /\ nextId = 1
    /\ last = NoOp
    /\ ndecl = 0
    /\ retry = RetryIdle
    /\ arl = ArlIdle
    /\ rl = RlIdle

AddSeedAct ==
    \E d \in SeedDecls :
      LET seed_name == d[1]
          beaker_name == d[2]
          seed_func == d[3]
      IN
        /\ seeds' = AddSeed(seeds, seed_name, beaker_name, seed_func)
        /\ last' = Log("add_seed", seed_name, beaker_name, "", << >>, << >>)
        /\ UNCHANGED <<graph, beakers, ledger, nextId, ndecl, retry, arl, rl>>

RunSeedAct ==
    \E seed_name \in SeedNames :
        LET r == RunSeed([beakers |-> beakers, seeds |-> seeds, ledger |-> ledger,
                          nextId |-> nextId], seed_name)
        IN  /\ r.nextId <= MaxIds + 1
            /\ beakers' = r.beakers
            /\ ledger' = r.ledger
            /\ nextId' = r.nextId
                /\ last' = Log("run_seed", seed_name, << >>, r.raised, << >>, r.inserts)
            /\ UNCHANGED <<graph, seeds, ndecl, retry, arl, rl>>

RunOnceWith(start_beaker, end_beaker) ==
    LET st == RunOnce([graph |-> graph, beakers |-> beakers],
                      start_beaker, end_beaker)
    IN  /\ beakers' = st.beakers
        /\ last' = LogRun(start_beaker, end_beaker, st)
        /\ UNCHANGED <<graph, seeds, ledger, nextId, ndecl, retry, arl, rl>>

\* run_once()
RunOnceAct == RunOnceWith(<< >>, << >>)

\* run_once(start_beaker, end_beaker), each a node of the graph or None
RunPartialAct ==
    \E start_beaker \in NodeSet(graph) \cup {<< >>},
       end_beaker \in NodeSet(graph) \cup {<< >>} :
        RunOnceWith(start_beaker, end_beaker)

ResetAct ==
    LET S == Reset([beakers |-> beakers, ledger |-> ledger])
    IN  /\ beakers' = S.beakers
        /\ ledger' = S.ledger
        /\ nextId' = 1
        /\ last' = [LogResult("reset", "", ResetReport([beakers |-> beakers]))
                        EXCEPT !.ran = << >>]
        /\ UNCHANGED <<graph, seeds, ndecl, retry, arl, rl>>

Next == AddSeedAct \/ RunSeedAct \/ RunOnceAct \/ ResetAct

Spec == Init /\ [][Next]_vars

(***************************************************************************)
(* Partial runs: the recipe with its seeds registered, seeded and run      *)
(* with every start and end beaker.                                        *)
(***************************************************************************)
InitPartial ==
    /\ \E R \in Recipes : graph = R.graph /\ beakers = R.beakers
    /\ seeds = AddSeed(AddSeed(<< >>, <<"abc">>, <<"word">>, "abc"),
                       <<"xyz">>, <<"word">>, "one")
    /\ ledger = << >>
    /\ nextId = 1
    /\ last = NoOp
    /\ ndecl = 0
    /\ retry = RetryIdle
    /\ arl = ArlIdle
    /\ rl = RlIdle

NextPartial == RunSeedAct \/ RunPartialAct

SpecPartial == InitPartial /\ [][NextPartial]_vars

(***************************************************************************)
(* Building a recipe: the declaration API called in any order, from the    *)
(* empty recipe.                                                           *)
(***************************************************************************)
BuildNames == {<<"a">>, <<"b">>}

BuildErrorMaps == {<< >>, << [error_types |-> <<"ValueError">>, dest |-> <<"b">>] >>}

BuildConds == {NamedFunc("is_small"), Lambda("is_even")}

InitBuild ==
    /\ graph = EmptyRecipe.graph
    /\ beakers = EmptyRecipe.beakers
    /\ seeds = << >>
    /\ ledger = << >>
    /\ nextId = 1
    /\ last = NoOp
    /\ ndecl = 0
    /\ retry = RetryIdle
    /\ arl = ArlIdle
    /\ rl = RlIdle

Declare(R) ==
    /\ ndecl < MaxDecls
    /\ ndecl' = ndecl + 1
    /\ graph' = R.graph
    /\ beakers' = R.beakers
    /\ last' = [NoOp EXCEPT !.op = "declare"]
    /\ UNCHANGED <<seeds, ledger, nextId, retry, arl, rl>>

Recipe == [graph |-> graph, beakers |-> beakers]

AddBeakerAct ==
    \E name \in BuildNames, temp \in BOOLEAN :
        Declare(AddBeaker(Recipe, name, temp))

AddTransformAct ==
    \E from_beaker \in BuildNames, to_beaker \in BuildNames,
       error_map \in BuildErrorMaps :
        Declare(AddTransform(Recipe, from_beaker, to_beaker, Lambda("parse"),
                             << >>, error_map))

AddConditionalAct ==
    \E from_beaker \in BuildNames, condition_func \in BuildConds,
       if_true \in BuildNames, if_false \in BuildNames \cup {<< >>} :
        Declare(AddConditional(Recipe, from_beaker, condition_func, if_true,
                               if_false))

GraphDataAct ==
    LET r == GraphData(Recipe)
    IN  /\ graph' = r.graph
        /\ last' = LogResult("graph_data", r.raised, r.result)
        /\ UNCHANGED <<beakers, seeds, ledger, nextId, ndecl, retry, arl, rl>>

NextBuild == AddBeakerAct \/ AddTransformAct \/ AddConditionalAct \/ GraphDataAct

SpecBuild == InitBuild /\ [][NextBuild]_vars

(***************************************************************************)
(* Calls of a Retry wrapper.                                               *)
(***************************************************************************)
InitRetry ==
    /\ graph = EmptyRecipe.graph
    /\ beakers = EmptyRecipe.beakers
    /\ seeds = << >>
    /\ ledger = << >>
    /\ nextId = 1
    /\ last = NoOp
    /\ ndecl = 0
    /\ \E retries \in 0..MaxRetries : retry = [RetryIdle EXCEPT !.retries = retries]
    /\ arl = ArlIdle
    /\ rl = RlIdle

RetryCallAct ==
    \E outs \in [1..(retry.retries + 1) -> FuncOutcomes] :
        LET r == RetryCall(retry.retries, outs)
        IN  /\ retry' = [retries |-> retry.retries, called |-> TRUE, outs |-> outs,
                         invocations |-> r.invocations, result |-> r.result]
            /\ UNCHANGED <<graph, beakers, seeds, ledger, nextId, last, ndecl, arl, rl>>

NextRetry == RetryCallAct

SpecRetry == InitRetry /\ [][NextRetry]_vars


(***************************************************************************)
(* Calls of an AdaptiveRateLimit wrapper.                                  *)
(***************************************************************************)
InitAdaptive ==
    /\ graph = EmptyRecipe.graph
    /\ beakers = EmptyRecipe.beakers
    /\ seeds = << >>
    /\ ledger = << >>
    /\ nextId = 1
    /\ last = NoOp
    /\ ndecl = 0
    /\ retry = RetryIdle
    /\ \E rps \in 1..MaxRate, b \in 2..MaxBackOff, sua \in 1..MaxSpeedUp :
          arl = [ArlIdle EXCEPT !.A = NewAdaptiveRateLimit(rps, b, sua)]
    /\ rl = RlIdle

AdaptiveCallAct ==
    /\ arl.ncalls < MaxCalls
    /\ \E outcome \in Outcomes :
          LET r == AdaptiveCall(arl.A, outcome)
          IN  arl' = [A |-> r.A, ncalls |-> arl.ncalls + 1, outcome |-> outcome,
                      raised |-> r.raised,
                      streak |-> IF outcome = "ok" /\
                                    r.A.requests_per_second = arl.A.requests_per_second
                                 THEN arl.streak + 1 ELSE 0]
    /\ UNCHANGED <<graph, beakers, seeds, ledger, nextId, last, ndecl, retry, rl>>

NextAdaptive == AdaptiveCallAct

SpecAdaptive == InitAdaptive /\ [][NextAdaptive]_vars

(***************************************************************************)
(* The commands of the command line, on a recipe with its seeds registered. *)
(***************************************************************************)
\* the seed registrations of the applications
SeedRegistries ==
    {<< >>,
     AddSeed(<< >>, <<"xyz">>, <<"word">>, "one"),
     AddSeed(AddSeed(<< >>, <<"abc">>, <<"word">>, "abc"),
             <<"xyz">>, <<"word">>, "one")}

\* the values of --input
Inputs ==
    {<< >>} \cup {<<[beaker |-> <<"word">>, filename |-> f]>> : f \in InputFiles}

InitCli ==
    /\ \E R \in Recipes : graph = R.graph /\ beakers = R.beakers
    /\ seeds \in SeedRegistries
    /\ ledger = << >>
    /\ nextId = 1
    /\ last = NoOp
    /\ ndecl = 0
    /\ retry = RetryIdle
    /\ arl = ArlIdle
    /\ rl = RlIdle

State == [graph |-> graph, beakers |-> beakers, seeds |-> seeds,
          ledger |-> ledger, nextId |-> nextId]

CliResetAct ==
    LET r == CliReset(State)
    IN  /\ beakers' = r.beakers
        /\ ledger' = r.ledger
        /\ nextId' = 1
        /\ last' = LogCli("cli_reset", << >>, << >>, "", << >>, << >>,
                          [exit |-> r.exit, ran |-> FALSE,
                           report |-> ResetReport(State)])
        /\ UNCHANGED <<graph, seeds, ndecl, retry, arl, rl>>

CliSeedAct ==
    \E name \in SeedNames :
        LET r == CliSeed(State, name)
        IN  /\ r.nextId <= MaxIds + 1
            /\ beakers' = r.beakers
            /\ ledger' = r.ledger
            /\ nextId' = r.nextId
            /\ last' = LogCli("cli_seed", name, << >>, r.raised, << >>, r.inserts,
                              [exit |-> r.exit, ran |-> FALSE, report |-> << >>])
            /\ UNCHANGED <<graph, seeds, ndecl, retry, arl, rl>>

CliRunAct ==
    \E input \in Inputs, start \in {<< >>, <<"word">>} :
        LET r == CliRun(State, input, start, << >>)
        IN  /\ r.nextId <= MaxIds + 1
            /\ beakers' = r.beakers
            /\ ledger' = r.ledger
            /\ nextId' = r.nextId
            /\ last' = LogCli("cli_run", input, start, r.raised, r.calls, r.inserts,
                              [exit |-> r.exit, ran |-> r.ran, report |-> << >>])
            /\ UNCHANGED <<graph, seeds, ndecl, retry, arl, rl>>

NextCli == CliResetAct \/ CliSeedAct \/ CliRunAct

SpecCli == InitCli /\ [][NextCli]_vars

(***************************************************************************)
(* Calls of a RateLimit wrapper, awaited one after another.                *)
(***************************************************************************)
InitRateLimit ==
    /\ graph = EmptyRecipe.graph
    /\ beakers = EmptyRecipe.beakers
    /\ seeds = << >>
    /\ ledger = << >>
    /\ nextId = 1
    /\ last = NoOp
    /\ ndecl = 0
    /\ retry = RetryIdle
    /\ arl = ArlIdle
    /\ \E r \in 1..MaxRate : rl = [RlIdle EXCEPT !.requests_per_second = r]

\* the time that passes between the start of edge_func in one call and the
\* next call of the wrapper: none, a tick, or about a period
IdleTimes(r) == {0, 1, Period(r) - 1, Period(r), Period(r) + 1}

RateLimitCallAct ==
    /\ rl.ncalls < MaxCalls
    /\ \E idle \in IdleTimes(rl.requests_per_second), over \in 0..1 :
          LET now == rl.now + idle
              c == RateLimitCall(rl.requests_per_second, rl.last_call, now, over)
          IN  rl' = [requests_per_second |-> rl.requests_per_second,
                     last_call |-> c.last_call, now |-> c.start,
                     ncalls |-> rl.ncalls + 1, start |-> c.start,
                     prev_start |-> rl.start, called_at |-> now, idle |-> idle,
                     over |-> over, slept |-> c.slept]
    /\ UNCHANGED <<graph, beakers, seeds, ledger, nextId, last, ndecl, retry, arl>>

NextRateLimit == RateLimitCallAct

SpecRateLimit == InitRateLimit /\ [][NextRateLimit]_vars

(***************************************************************************)
(* Properties.                                                             *)
(***************************************************************************)
\* the kinds an exception of kind k is an instance of
AncestorKinds(k) ==
    CASE k = "KeyError" -> {"KeyError", "LookupError", "Exception", "BaseException"}
      [] k = "CancelledError" -> {"CancelledError", "BaseException"}
      [] k = "BaseException" -> {"BaseException"}
      [] OTHER -> {k, "Exception", "BaseException"}

EntryMatches(entry, kind) ==
    \E i \in 1..Len(entry.error_types) : entry.error_types[i] \in AncestorKinds(kind)

EdgeOf(from, to) == CHOOSE e \in Range(graph.edges) : e.from = from /\ e.to = to

\* the add_item calls a run made while it processed the call c
InsertsOf(l, c) ==
    {k \in 1..Len(l.inserts) :
        /\ l.inserts[k].from = c.from
        /\ l.inserts[k].to = c.to
        /\ l.inserts[k].id = c.id}

ResultInserted(l, c) == \E k \in InsertsOf(l, c) : l.inserts[k].kind = "result"

Called(l, c) ==
    \E p \in 1..Len(l.calls) :
        l.calls[p].from = c.from /\ l.calls[p].to = c.to /\ l.calls[p].id = c.id

Holds(b, id, item) == [id |-> id, item |-> item] \in Range(b.items)

\* a step that is a run_once made right after a run_once
SecondRun == last.op = "run_once" /\ last'.op = "run_once" /\ last'.n # last.n

InsertedOnce ==
    /\ \A i \in 1..Len(last'.inserts), j \in 1..Len(last.inserts) :
          ~ (/\ last'.inserts[i].kind = "result"
             /\ last.inserts[j].kind = "result"
             /\ last'.inserts[i].beaker = last.inserts[j].beaker
             /\ last'.inserts[i].id = last.inserts[j].id)
    /\ \A i, j \in 1..Len(last'.inserts) :
          (/\ last'.inserts[i].beaker = last'.inserts[j].beaker
           /\ last'.inserts[i].id = last'.inserts[j].id) => i = j

NextItem(l, e, i) ==
    LET items == beakers[e.from].items
        todo == {j \in (i + 1)..Len(items) :
                    \/ items[j].id \notin BeakerIdSet(beakers[e.to])
                    \/ Called(l, [from |-> e.from, to |-> e.to, id |-> items[j].id])}
    IN  IF todo = {} THEN 0 ELSE CHOOSE j \in todo : \A k \in todo : j <= k

PositionOf(b, id) == CHOOSE i \in 1..Len(b.items) : b.items[i].id = id

\* C2: a transform exception that an error_map entry matches (by kind or
\* subkind) goes to the first matching entry: one ErrorType record (item,
\* message, kind) under the item's id in that entry's beaker and nowhere else,
\* nothing for the id in the edge's destination, and the run goes on with the
\* next item.
C2_ErrorRouting ==
    last.op = "run_once" =>
      \A p \in 1..Len(last.calls) :
        LET c == last.calls[p]
            e == EdgeOf(c.from, c.to)
            em == e.transform.error_map
            M == {i \in 1..Len(em) : EntryMatches(em[i], c.out.kind)}
        IN  (c.out.raised /\ M # {}) =>
              LET first == CHOOSE i \in M : \A j \in M : i <= j
                  dest == em[first].dest
                  err == ErrorType(c.item, c.out.msg, c.out.kind)
                  next == NextItem(last, e, PositionOf(beakers[c.from], c.id))
              IN  /\ Cardinality(InsertsOf(last, c)) = 1
                  /\ \A k \in InsertsOf(last, c) :
                        /\ last.inserts[k].beaker = dest
                        /\ last.inserts[k].item = err
                  /\ Holds(beakers[dest], c.id, err)
                  /\ c.id \notin BeakerIdSet(beakers[c.to])
                  /\ next # 0 =>
                        /\ p < Len(last.calls)
                        /\ last.calls[p + 1].from = c.from
                        /\ last.calls[p + 1].to = c.to
                        /\ last.calls[p + 1].id = beakers[c.from].items[next].id

\* a KeyError, which both entries of the error map match, was routed and the
\* run went on to another item
C2_Witness ==
    /\ last.op = "run_once"
    /\ \E p \in 1..Len(last.calls) :
          /\ last.calls[p].out.raised
          /\ last.calls[p].out.kind = "KeyError"
          /\ Cardinality({i \in 1..Len(EdgeOf(last.calls[p].from,
                                              last.calls[p].to).transform.error_map) :
                 EntryMatches(EdgeOf(last.calls[p].from,
                                     last.calls[p].to).transform.error_map[i],
                              "KeyError")}) = 2
          /\ p < Len(last.calls)
          /\ InsertsOf(last, last.calls[p]) # {}

\* C3: a transform exception that no error_map entry matches leaves run_once:
\* nothing is inserted for the item, no later item, edge or node is processed,
\* and what the run inserted before stays.
C3_UnroutedAborts ==
    last.op = "run_once" =>
      /\ \A p \in 1..Len(last.calls) :
            LET c == last.calls[p]
                em == EdgeOf(c.from, c.to).transform.error_map
            IN  (c.out.raised /\ \A i \in 1..Len(em) : ~EntryMatches(em[i], c.out.kind))
                  => /\ last.raised = c.out.kind
                     /\ p = Len(last.calls)
                     /\ InsertsOf(last, c) = {}
                     /\ \A k \in 1..Len(last.inserts) :
                           \E q \in 1..(p - 1) : k \in InsertsOf(last, last.calls[q])
      /\ \A k \in 1..Len(last.inserts) :
            Holds(beakers[last.inserts[k].beaker], last.inserts[k].id,
                  last.inserts[k].item)

\* a run that an unrouted exception left after it had inserted records, with an
\* item of the edge and a later edge still to process
C3_Witness ==
    /\ last.op = "run_once" /\ last.raised = "ValueError"
    /\ last.inserts # << >>
    /\ LET c == last.calls[Len(last.calls)]
       IN  /\ NextItem(last, EdgeOf(c.from, c.to),
                       PositionOf(beakers[c.from], c.id)) # 0
           /\ \E e \in Range(graph.edges) :
                 e.from = c.to /\ BeakerLen(beakers[e.from]) # 0

HasRow(ldg, seed_name) == \E i \in 1..Len(ldg) : ldg[i].name = seed_name

RowsOf(ldg, seed_name) == {i \in 1..Len(ldg) : ldg[i].name = seed_name}

\* a step that is a run_seed call
SeedStep == last'.op = "run_seed" /\ last'.n # last.n

\* C4: the first run_seed(s) of a registered seed whose generator yields n
\* records puts n records into the target beaker and one row (s, n) into the
\* ledger; a run_seed(s) after it, with no reset in between (the row is there),
\* raises SeedError and changes no beaker and no row.
C4_SeedRunsOnce ==
    [][SeedStep =>
        LET s == last'.a
        IN  /\ (s \in DOMAIN seeds /\ ~HasRow(ledger, s)
                  /\ ~SeedGen(seeds[s].seed_func).raises) =>
                 LET n == Len(SeedGen(seeds[s].seed_func).items)
                     t == seeds[s].beaker_name
                 IN  /\ last'.raised = ""
                     /\ BeakerLen(beakers'[t]) = BeakerLen(beakers[t]) + n
                     /\ Len(last'.inserts) = n
                     /\ \A b \in DOMAIN beakers : b # t => beakers'[b] = beakers[b]
                     /\ Cardinality(RowsOf(ledger', s)) = 1
                     /\ \A i \in RowsOf(ledger', s) : ledger'[i].num_items = n
                     /\ Len(ledger') = Len(ledger) + 1
            /\ HasRow(ledger, s) =>
                 /\ last'.raised = "SeedError"
                 /\ beakers' = beakers
                 /\ ledger' = ledger
      ]_vars

\* a run_seed of a seed that has its row was refused
C4_Witness ==
    /\ last.op = "run_seed" /\ last.raised = "SeedError"
    /\ last.a \in DOMAIN seeds
    /\ \E i \in 1..Len(ledger) : ledger[i].name = last.a /\ ledger[i].num_items = 3
    /\ BeakerLen(beakers[<<"word">>]) = 3

\* C5: the ledger holds at most one row per seed name; a row is never
\* modified, and rows go only all together, in a reset.
C5_Ledger ==
    /\ [](\A i, j \in 1..Len(ledger) : ledger[i].name = ledger[j].name => i = j)
    /\ [][\/ last'.op = "reset" /\ ledger' = << >>
          \/ /\ Len(ledger') >= Len(ledger)
             /\ \A i \in 1..Len(ledger) : ledger'[i] = ledger[i]]_vars

\* two seeds have their rows, and a run_seed of one of them was refused
C5_Witness ==
    /\ Len(ledger) = 2
    /\ last.op = "run_seed" /\ last.raised = "SeedError"
    /\ HasRow(ledger, last.a)

\* C6: the nodes of the graph are the keys of the beaker mapping, whatever was
\* declared.
C6_NodesAreBeakers == NodeSet(graph) = DOMAIN beakers

CondEdges == {e \in Range(graph.edges) : e.transform.transform_func.kind = "pair"}

BranchEdges(cond_name, kind) ==
    {e \in Range(graph.edges) :
        e.from = cond_name /\ e.transform.transform_func.kind = kind}

\* C7: after a run_once that completed, every item of the source of a
\* conditional is, as it was and under its id, in if_true when the predicate
\* is true of it and in if_false when it is false, and in no case in both.
C7_Conditional ==
    (last.op = "run_once" /\ last.raised = "") =>
      \A ce \in CondEdges :
        \A i \in 1..Len(beakers[ce.from].items) :
          LET rec == beakers[ce.from].items[i]
              c == CondCall(ce.transform.transform_func.arg, rec.item)
          IN  /\ ~c.raised
              /\ \A et \in BranchEdges(ce.to, "if_cond_true") :
                    /\ c.value => Holds(beakers[et.to], rec.id, rec.item)
                    /\ ~c.value => rec.id \notin BeakerIdSet(beakers[et.to])
              /\ \A ef \in BranchEdges(ce.to, "if_cond_false") :
                    /\ ~c.value => Holds(beakers[ef.to], rec.id, rec.item)
                    /\ c.value => rec.id \notin BeakerIdSet(beakers[ef.to])

\* a completed run over a conditional with items in both of its branches
C7_Witness ==
    /\ last.op = "run_once" /\ last.raised = ""
    /\ \E ce \in CondEdges :
          /\ \E et \in BranchEdges(ce.to, "if_cond_true") :
                BeakerLen(beakers[et.to]) # 0
          /\ \E ef \in BranchEdges(ce.to, "if_cond_false") :
                BeakerLen(beakers[ef.to]) # 0

\* the place of a node in the topological order
Pos(n) == IndexOf(TopologicalSort(graph).order, n)

\* the nodes at or after S and strictly before E in the topological order;
\* << >> stands for no start, no end
Between(S, E) ==
    {n \in NodeSet(graph) :
        /\ S # << >> => Pos(n) >= Pos(S)
        /\ E # << >> => Pos(n) < Pos(E)}

\* the nodes run_once(S, E) processes: those at or after S, up to E when E is
\* not before S
Processed(S, E) ==
    {n \in NodeSet(graph) :
        /\ S # << >> => Pos(n) >= Pos(S)
        /\ (E # << >> /\ (S = << >> \/ Pos(E) >= Pos(S))) => Pos(n) < Pos(E)}

\* the run l started the edge e
Executed(l, e) ==
    \E k \in 1..Len(l.edges) : l.edges[k].from = e.from /\ l.edges[k].to = e.to

\* every edge the run started, and every call and insert of it, left a node of
\* W, and, when the run completed, every edge leaving a node of W was executed
RanExactly(W) ==
    /\ \A k \in 1..Len(last.edges) : last.edges[k].from \in W
    /\ \A p \in 1..Len(last.calls) : last.calls[p].from \in W
    /\ \A k \in 1..Len(last.inserts) : last.inserts[k].from \in W
    /\ last.raised = "" =>
          \A e \in Range(graph.edges) : e.from \in W => Executed(last, e)

Caught(out) == out.raised /\ "Exception" \in AncestorKinds(out.kind)

\* C9: one call of Retry(f, retries) invokes f at most retries+1 times; it
\* stops at the first attempt that succeeds and returns its result; when all
\* retries+1 attempts fail it raises the exception of the last one, after
\* retries+1 invocations.
C9_Retry ==
    retry.called =>
      LET n == retry.retries + 1
          ok == {i \in 1..n : ~retry.outs[i].raised /\
                              \A j \in 1..(i - 1) : Caught(retry.outs[j])}
      IN  /\ retry.invocations <= n
          /\ \A i \in ok :
                /\ retry.invocations = i
                /\ retry.result = Ret(retry.outs[i].value)
          /\ (\A i \in 1..n : Caught(retry.outs[i])) =>
                /\ retry.invocations = n
                /\ retry.result = retry.outs[n]

\* a call with 2 retries whose first two attempts failed, with different
\* exceptions, and whose third returned
C9_Witness ==
    /\ retry.called /\ retry.retries = 2
    /\ retry.outs[1].raised /\ retry.outs[2].raised
    /\ retry.outs[1] # retry.outs[2]
    /\ ~retry.outs[3].raised
    /\ retry.invocations = 3
    /\ ~retry.result.raised

\* C10: the current rate of an AdaptiveRateLimit never exceeds the rate it
\* was constructed with.
C10_RateCeiling ==
    ~FLess(arl.A.desired_requests_per_second, arl.A.requests_per_second)

\* a call of the wrapper
AdaptiveStep == arl'.ncalls = arl.ncalls + 1

\* C11: the rate is multiplied by back_off_rate only once speed_up_after
\* successful calls have been made in a row since the rate last changed, the
\* call that speeds up included.
C11_SpeedUpStreak ==
    [][(AdaptiveStep /\ FLess(arl.A.requests_per_second, arl'.A.requests_per_second))
          => arl.streak + 1 >= arl.A.speed_up_after]_vars

\* C12: a call whose function raises a timeout exception divides the rate by
\* back_off_rate once and raises that exception; a call whose function raises
\* another exception raises it and leaves the rate as it was.  Neither
\* changes any other setting of the wrapper.
C12_SlowDown ==
    [][AdaptiveStep =>
        /\ arl'.outcome = "timeout" =>
              /\ arl'.raised = "TimeoutError"
              /\ arl'.A.requests_per_second =
                    FDivInt(arl.A.requests_per_second, arl.A.back_off_rate)
              /\ FLess(arl'.A.requests_per_second, arl.A.requests_per_second)
        /\ arl'.outcome = "error" =>
              /\ arl'.raised = "ValueError"
              /\ arl'.A.requests_per_second = arl.A.requests_per_second
        /\ arl'.outcome \in {"timeout", "error"} =>
              /\ arl'.A.desired_requests_per_second = arl.A.desired_requests_per_second
              /\ arl'.A.back_off_rate = arl.A.back_off_rate
              /\ arl'.A.speed_up_after = arl.A.speed_up_after
              /\ arl'.A.successes_counter = arl.A.successes_counter
      ]_vars

\* a timeout that slowed an already reduced rate
C12_Witness ==
    /\ arl.outcome = "timeout" /\ arl.raised = "TimeoutError"
    /\ arl.ncalls >= 2
    /\ FLess(arl.A.requests_per_second,
             FDivInt(arl.A.desired_requests_per_second, arl.A.back_off_rate))

\* the predecessors of a node
Preds(g, n) == {e.from : e \in {x \in Range(g.edges) : x.to = n}}

RankIn(result, n) == (CHOOSE i \in 1..Len(result) : result[i].name = n)

\* a graph_data call just made
GraphDataStep == last'.op = "graph_data" /\ last'.n # last.n

Acyclic(g) == ~TopologicalSort(g).cyclic

C14_ResetClears ==
    last.op = "reset" =>
        /\ last.raised = ""
        /\ ledger = << >>
        /\ \A n \in DOMAIN beakers : beakers[n].items = << >>
        /\ \A s \in DOMAIN seeds :
              LET r == RunSeed([beakers |-> beakers, seeds |-> seeds,
                                ledger |-> ledger, nextId |-> nextId], s)
                  gen == SeedGen(seeds[s].seed_func)
              IN  /\ r.raised # "SeedError"
                  /\ Len(r.inserts) = Len(gen.items)
                  /\ ~gen.raises =>
                        /\ r.raised = ""
                        /\ r.ledger =
                              <<[name |-> s, beaker_name |-> seeds[s].beaker_name,
                                 num_items |-> Len(gen.items),
                                 imported_at |-> "CURRENT_TIMESTAMP"]>>

\* a reset that cleared the records of two beakers, made right after a
\* run_once, with two seeds registered
C14_Witness ==
    /\ last.op = "reset" /\ last.after = "run_once"
    /\ Cardinality(DOMAIN seeds) = 2
    /\ Cardinality({n \in DOMAIN beakers : last.result[n] > 0}) >= 2

\* a command just run
CliStep(op) == last'.op = op /\ last'.n # last.n

\* C15: the reset command exits with code 1 when there was nothing to clear
\* (no ledger row, no record in any beaker) and with code 0 when something
\* was cleared.
C15_ResetSignals ==
    [][CliStep("cli_reset") =>
        last'.result.exit =
            (IF ledger = << >> /\ \A n \in DOMAIN beakers : beakers[n].items = << >>
             THEN 1 ELSE 0)]_vars

\* the inserts of a command of the given kinds
InsertKinds(l) == [k \in 1..Len(l.inserts) |-> l.inserts[k].kind]

\* the log holds the inserts of the seeds, then those of the inputs, then
\* those of run_once
SeedsThenInputsThenRun(l) ==
    \A i, j \in 1..Len(l.inserts) :
        i < j => /\ l.inserts[j].kind = "seed" => l.inserts[i].kind = "seed"
                 /\ l.inserts[i].kind \in {"result", "error"} =>
                        l.inserts[j].kind \in {"result", "error"}

\* no record anywhere once the seeds have run and the inputs are loaded
NoDataAfterLoading ==
    /\ \A n \in DOMAIN beakers : beakers[n].items = << >>
    /\ \A k \in 1..Len(last'.inserts) : last'.inserts[k].kind \notin {"seed", "input"}

\* no record anywhere once the seeds have run, the inputs not looked at
NoDataAfterSeeding ==
    /\ \A n \in DOMAIN beakers : beakers[n].items = << >>
    /\ \A k \in 1..Len(last'.inserts) : last'.inserts[k].kind # "seed"

\* what holds of every run command, whichever test it makes
RunCommon ==
    /\ SeedsThenInputsThenRun(last')
    /\ last'.raised = "" => \A s \in DOMAIN seeds : HasRow(ledger', s)
    /\ ~last'.result.ran => (last'.result.exit = 1 /\ last'.calls = << >>)
    /\ last'.result.ran => last'.result.exit = (IF last'.raised = "" THEN 0 ELSE 1)

C17_SeedMisuse ==
    [][CliStep("cli_seed") =>
        /\ (last'.a \notin DOMAIN seeds \/ HasRow(ledger, last'.a)) =>
              /\ last'.raised = "SeedError"
              /\ last'.result.exit = 1
              /\ ledger' = ledger /\ beakers' = beakers
              /\ last'.inserts = << >>
        /\ last'.raised = "" => last'.result.exit = 0
      ]_vars

\* both misuses happened: a seed command for a seed that has its row was
\* refused, in a recipe where the other name is not registered
C17_Witness ==
    /\ last.op = "cli_seed" /\ last.raised = "SeedError" /\ last.result.exit = 1
    /\ HasRow(ledger, last.a)
    /\ \E name \in SeedNames : name \notin DOMAIN seeds

\* C18: edge_func never starts less than 1 / requests_per_second after its
\* previous start; the first call is not delayed; a call made right at the
\* previous start of edge_func starts it one period later (one second at one
\* request per second), plus what the sleep overshoots.
C18_RateLimit ==
    rl.ncalls > 0 =>
        /\ rl.start >= rl.called_at
        /\ rl.prev_start = -1 => (rl.slept = 0 /\ rl.start = rl.called_at)
        /\ rl.prev_start # -1 =>
              /\ rl.requests_per_second * (rl.start - rl.prev_start) >= TicksPerSecond
              /\ rl.idle = 0 =>
                    rl.start - rl.prev_start =
                        (TicksPerSecond \div rl.requests_per_second) + rl.over
              /\ (rl.requests_per_second = 1 /\ rl.idle = 0 /\ rl.over = 0) =>
                    rl.start - rl.prev_start = TicksPerSecond

\* at one request per second, a second call made at once was held back a
\* second, and a later call was not held back at all
C18_Witness ==
    /\ rl.requests_per_second = 1 /\ rl.ncalls = 2
    /\ rl.idle = 0 /\ rl.over = 0
    /\ rl.slept = TicksPerSecond
    /\ rl.start - rl.prev_start = TicksPerSecond

\* the ids the run l invoked the transform of the edge from->to on, in order
CallIds(l, from, to) ==
    LET cs == SelectSeq(l.calls, LAMBDA c : c.from = from /\ c.to = to)
    IN  [i \in 1..Len(cs) |-> cs[i].id]

\* the ids of the items of from, in order, that to did not hold at the start
Due(ed) == SelectSeq(ed.from_ids, LAMBDA id : id \notin ed.to_ids)

IsPrefix(s, t) == Len(s) <= Len(t) /\ \A i \in 1..Len(s) : s[i] = t[i]

\* a step that is a run_once
RunStep == last'.op = "run_once" /\ last'.n # last.n

\* the beakers an error_map of the graph routes to
ErrorBeakers ==
    UNION {{e.transform.error_map[i].dest : i \in 1..Len(e.transform.error_map)} :
              e \in Range(graph.edges)}

\* every result the run inserted from a beaker of W comes from an item that
\* beaker did not hold when the run_once before returned
NewResultsFrom(W) ==
    \A k \in 1..Len(last'.inserts) :
        LET ins == last'.inserts[k]
        IN  (ins.kind = "result" /\ ins.from \in W \cap DOMAIN last.ran) =>
                ins.id \notin last.ran[ins.from]

NewResultsOnly == NewResultsFrom(DOMAIN beakers)

\* C19 as stated: on every edge a run_once starts, the transform is invoked
\* exactly once on each item of from whose id to did not hold at the start of
\* the edge and on no other, and a later run inserts results into to only for
\* items that from did not hold when the earlier run ended.
C19_EveryDueItemOnce ==
    [][RunStep =>
        /\ \A k \in 1..Len(last'.edges) :
              CallIds(last', last'.edges[k].from, last'.edges[k].to)
                  = Due(last'.edges[k])
        /\ NewResultsOnly
      ]_vars

\* C19 amended: on every edge a run_once starts, the transform is invoked on
\* no item whose id to held at the start of the edge, and once each, in the
\* order of from, on the items whose id to did not hold: on all of them, or, on
\* the last edge of a run that an exception left, on those up to the item whose
\* call raised.  A run_once() that follows a run_once() that returned inserts
\* results into to only for items that from did not hold when the earlier run
\* returned, when from is no destination of an error_map and the transforms
\* are functions of the item.
C19_DueItemsUntilRaise ==
    [][RunStep =>
        /\ \A k \in 1..Len(last'.edges) :
              LET ed == last'.edges[k]
                  ids == CallIds(last', ed.from, ed.to)
              IN  \/ ids = Due(ed)
                  \/ /\ k = Len(last'.edges)
                     /\ last'.raised # ""
                     /\ ids # << >>
                     /\ IsPrefix(ids, Due(ed))
                     /\ last'.calls[Len(last'.calls)].out.raised
                     /\ last'.calls[Len(last'.calls)].from = ed.from
                     /\ last'.calls[Len(last'.calls)].to = ed.to
        /\ NewResultsFrom((DOMAIN beakers) \ ErrorBeakers)
      ]_vars

\* a run_once after another and a seed run between them: an edge whose
\* destination held the ids of earlier items of its source, and the transform
\* invoked on the later items only, with a result inserted
C19_Witness ==
    /\ last.op = "run_once" /\ last.after = "run_seed"
    /\ \E k \in 1..Len(last.edges) :
          LET ed == last.edges[k]
          IN  /\ ed.to_ids \cap Range(ed.from_ids) # {}
              /\ Due(ed) # << >>
              /\ CallIds(last, ed.from, ed.to) = Due(ed)
              /\ \E i \in 1..Len(last.inserts) :
                    /\ last.inserts[i].kind = "result"
                    /\ last.inserts[i].from = ed.from
                    /\ last.inserts[i].to = ed.to
                    /\ last.inserts[i].id \in Range(Due(ed))

\* the beakers the error_map of the transform routes to
ErrorDests(transform) ==
    {transform.error_map[i].dest : i \in 1..Len(transform.error_map)}

\* the add_item call ins of the run l stores, in the destination of an edge or
\* in a beaker its error_map routes to, a record of an item that the edge's
\* source holds in bs under the same id and that the run gave to the transform
UnderSourceId(l, bs, ins) ==
    /\ ins.from \in DOMAIN bs
    /\ \E p \in 1..Len(l.calls) :
          LET c == l.calls[p]
          IN  /\ c.from = ins.from /\ c.to = ins.to /\ c.id = ins.id
              /\ Holds(bs[ins.from], ins.id, c.item)
              /\ \/ /\ ins.kind = "result"
                    /\ ins.beaker = ins.to
                    /\ ~c.out.raised /\ ins.item = c.out.value
                 \/ /\ ins.kind = "error"
                    /\ ins.beaker \in ErrorDests(EdgeOf(ins.from, ins.to).transform)
                    /\ c.out.raised
                    /\ ins.item = ErrorType(c.item, c.out.msg, c.out.kind)

\* the ids added to the beaker b by the add_item calls of the run l
AddedIds(l, b) ==
    {l.inserts[k].id : k \in {j \in 1..Len(l.inserts) : l.inserts[j].beaker = b}}

\* the beaker after holds every id the beaker before holds, at the same place,
\* and beyond them the ids of added
OnlyAdded(before, after, added) ==
    /\ Len(before.items) <= Len(after.items)
    /\ \A i \in 1..Len(before.items) : after.items[i].id = before.items[i].id
    /\ BeakerIdSet(after) = BeakerIdSet(before) \cup added

\* the beakers a seed was declared for
SeedFed == {seeds[n].beaker_name : n \in DOMAIN seeds}

\* the source beakers of the edges into b or with an error route to b
Feeders(b) ==
    {e.from : e \in {d \in Range(graph.edges) :
                        d.to = b \/ b \in ErrorDests(d.transform)}}

\* every id of a beaker that no seed feeds is an id of one of its feeders
Lineage ==
    \A b \in (DOMAIN beakers) \ SeedFed :
        \A id \in BeakerIdSet(beakers[b]) :
            \E f \in Feeders(b) \cap DOMAIN beakers : id \in BeakerIdSet(beakers[f])

\* C20: run_once creates and removes no id: each add_item call it makes stores,
\* in the destination of an edge or in a beaker the edge's error_map routes
\* to, a record under the id of the source item given to the transform; every
\* beaker keeps the ids it held and gains only the ids so added; and in every
\* state each id of a beaker that no seed feeds is held by the source beaker of
\* an edge into it or of an edge with an error route to it.
C20_IdLineage ==
    /\ []Lineage
    /\ [][RunStep =>
            /\ nextId' = nextId
            /\ DOMAIN beakers' = DOMAIN beakers
            /\ \A k \in 1..Len(last'.inserts) :
                  UnderSourceId(last', beakers', last'.inserts[k])
            /\ \A b \in DOMAIN beakers :
                  OnlyAdded(beakers[b], beakers'[b], AddedIds(last', b))
         ]_vars

\* a run_once that stored an ErrorType record in an error beaker and a result
\* two transforms away from the seeded beaker, each under an id of the seeded
\* beaker
C20_Witness ==
    /\ last.op = "run_once"
    /\ \E i, j \in 1..Len(last.inserts) :
          /\ last.inserts[i].kind = "error"
          /\ last.inserts[i].beaker # last.inserts[i].to
          /\ last.inserts[i].id \in BeakerIdSet(beakers[last.inserts[i].from])
          /\ last.inserts[j].kind = "result"
          /\ last.inserts[j].from \notin SeedFed
          /\ last.inserts[j].id \in BeakerIdSet(beakers[last.inserts[j].to])
          /\ \E s \in SeedFed \cap DOMAIN beakers :
                last.inserts[j].id \in BeakerIdSet(beakers[s])

\* a run_once() without start or end beaker
FullRun == last.op = "run_once" /\ last.a = << >> /\ last.b = << >>

\* the place of the edge e among the edges the run l started, 0 if it was not
PlaceOf(l, e) ==
    LET ks == {k \in 1..Len(l.edges) :
                  l.edges[k].from = e.from /\ l.edges[k].to = e.to}
    IN  IF ks = {} THEN 0 ELSE CHOOSE k \in ks : \A j \in ks : k <= j

\* the run started the edges out of a node only after every edge into it
InEdgesFirst ==
    \A k \in 1..Len(last.edges) :
        \A e \in Range(graph.edges) :
            e.to = last.edges[k].from =>
                (PlaceOf(last, e) # 0 /\ PlaceOf(last, e) < k)

\* the run gave the item under id to the transform of e, which returned a
\* falsy value or raised
Dropped(l, e, id) ==
    \E p \in 1..Len(l.calls) :
        /\ l.calls[p].from = e.from /\ l.calls[p].to = e.to /\ l.calls[p].id = id
        /\ \/ l.calls[p].out.raised
           \/ ~Truthy(l.calls[p].out.value)

\* every id of the source of e is an id of its destination, or was dropped
Carried(e) ==
    \A id \in BeakerIdSet(beakers[e.from]) :
        id \in BeakerIdSet(beakers[e.to]) \/ Dropped(last, e, id)

\* C21: a run_once() without start or end starts the edges out of a node only
\* after every edge into the node; when it returns, for every edge whose
\* source is no destination of an error_map, every id of the source is in the
\* destination unless the transform returned a falsy value or raised a routed
\* error for the item in this run.
C21_Propagation ==
    FullRun =>
        /\ InEdgesFirst
        /\ last.raised = "" =>
              \A e \in Range(graph.edges) :
                  e.from \notin ErrorBeakers => Carried(e)

\* a run_once() that returned after it carried an id of the seeded beaker over
\* two edges in a row
C21_Witness ==
    /\ FullRun /\ last.raised = ""
    /\ \E i, j \in 1..Len(last.inserts) :
          /\ i < j
          /\ last.inserts[i].kind = "result" /\ last.inserts[j].kind = "result"
          /\ last.inserts[i].id = last.inserts[j].id
          /\ last.inserts[i].to = last.inserts[j].from
          /\ last.inserts[i].from \in SeedFed

\* C22: a run_seed(s) call that inserted records into the target beaker,
\* whether it returned or raised, found no ledger row for s and leaves one, so
\* that no later run_seed(s) inserts the records of s again before a reset.
C22_SeedAllOrNothing ==
    [][(SeedStep /\ last'.inserts # << >>) =>
          /\ ~HasRow(ledger, last'.a)
          /\ HasRow(ledger', last'.a)
      ]_vars

\* a run_once made right after a run_once that returned
RunAfterRun == SecondRun /\ last.raised = ""

\* every error beaker that has transforms of its own comes, in the topological
\* order, after the source of each edge whose error_map routes to it
ErrorsFlowForward ==
    \A e \in Range(graph.edges) :
        \A d \in ErrorDests(e.transform) :
            (\E f \in Range(graph.edges) : f.from = d) => Pos(d) > Pos(e.from)

\* C23 as stated: a run_once() right after a run_once() that returned changes
\* the contents of no beaker, in every acyclic graph, also when an error
\* beaker has transforms of its own.
C23_Fixpoint ==
    [][RunAfterRun => beakers' = beakers]_vars

\* C23 amended: a run_once() right after a run_once() that returned returns
\* and changes the contents of no beaker, in every acyclic graph in which each
\* error beaker that has transforms of its own comes, in the topological order
\* the run follows, after the source of every edge that routes to it.
C23_FixpointErrorsForward ==
    [][(RunAfterRun /\ ErrorsFlowForward) =>
          (beakers' = beakers /\ last'.raised = "")]_vars

\* a second run_once in a row, on a graph whose error beaker has a transform
\* of its own and comes after the routing beaker: the run routed an error
\* again, and every id of the error beaker is in the destination of its
\* transform
C23_Witness ==
    /\ last.op = "run_once" /\ last.after = "run_once" /\ last.raised = ""
    /\ ErrorsFlowForward
    /\ \E k \in 1..Len(last.inserts) : last.inserts[k].kind = "error"
    /\ \E f \in Range(graph.edges) :
          /\ f.from \in ErrorBeakers
          /\ BeakerLen(beakers[f.from]) # 0
          /\ BeakerIdSet(beakers[f.from]) \subseteq BeakerIdSet(beakers[f.to])

====
